---------------------------- MODULE Spec2Model ----------------------------
(***************************************************************************)
(* A model of index.tsx, the single-file HCM service: the KPI engine       *)
(* (computeTop8), the stop-clock arithmetic (overlapMs,                    *)
(* effectiveHoursExcludingStops), the JSON file store (loadStore, save)    *)
(* and the request handlers of route.                                      *)
(*                                                                         *)
(* Representation of JavaScript values:                                    *)
(*   a date field  [k |-> "date", t |-> ms]  a native Date at instant t    *)
(*                 [k |-> "str",  t |-> ms]  the ISO-8601 string of t      *)
(*                 [k |-> "none"]            null, undefined or absent     *)
(*   a number      [k |-> "num", n |-> n, d |-> d]  the rational n/d,      *)
(*                                           reduced, d > 0                *)
(*                 [k |-> "nan"]             NaN                           *)
(*                 [k |-> "null"]            null                          *)
(* Instants are milliseconds relative to an arbitrary origin.  The free    *)
(* text fields (title, description, reason, comment, name) take no part in *)
(* any computation and are left out of the records.                        *)
(***************************************************************************)
EXTENDS Integers, Sequences, FiniteSets, TLC

VARIABLES
    now,            \* the wall clock: Date.now() / new Date()
    up,             \* the server process is running
    tickets,        \* store.tickets
    requisitions,   \* store.requisitions
    stopClocks,     \* store.stopClocks
    enps,           \* store.enps
    sessions,       \* store.sessions
    files,          \* the JSON files of DATA_DIR, by collection name
    nextId,         \* number of identifiers cuid() has handed out
    nextSid,        \* number of session ids createSession has drawn
    resp,           \* the outcome of the request handled by the last step
    call,           \* arguments of a direct call of a pure helper
    ret,            \* result of that call
    requests,       \* the requests route has received, each with the position
                    \* of its handler
    tmp             \* the .tmp files of DATA_DIR, by collection name

vars == <<now, up, tickets, requisitions, stopClocks, enps, sessions, files,
          nextId, nextSid, resp, call, ret, requests, tmp>>

store == <<tickets, requisitions, stopClocks, enps, sessions>>

-----------------------------------------------------------------------------
(* Bounds of the model *)

MaxClock == 1        \* the clock takes the values 0 .. MaxClock clock steps
MaxStops == 2        \* stop-clock intervals the ledger may hold
MaxPosted == 1       \* tickets created through POST /api/tickets
MaxEnps == 1         \* survey responses created through POST /api/enps
MaxSessions == 1     \* sessions created by the login routes
MaxEffStops == 2     \* stop intervals passed to a direct call
MaxTickets == 2      \* tickets passed to a direct computeTop8 call
MaxReqPool == 7      \* requisitions the direct computeTop8 calls choose from
MaxSurvey == 8       \* survey responses passed to a direct computeTop8 call
MaxInstant == 3      \* instants of a direct overlapMs call, in half hours
MaxRequests == 2     \* requests received while others are in flight

-----------------------------------------------------------------------------
(* JavaScript values *)

HOURS == 1000 * 60 * 60

NoDate == [k |-> "none"]
DateOf(t) == [k |-> "date", t |-> t]
IsoOf(t) == [k |-> "str", t |-> t]

\* JavaScript truthiness of a date field: a Date object and a non-empty string
\* are truthy, null and undefined are not.
Truthy(v) == v.k # "none"

\* a.getTime() is defined on Date objects only; on a string it is a TypeError.
HasGetTime(v) == v.k = "date"

Abs(x) == IF x < 0 THEN -x ELSE x
Max(a, b) == IF a >= b THEN a ELSE b
Min(a, b) == IF a <= b THEN a ELSE b

RECURSIVE GCD(_, _)
GCD(a, b) == IF b = 0 THEN a ELSE GCD(b, a % b)

NullNum == [k |-> "null"]
NaN == [k |-> "nan"]
Num(n, d) == LET g == GCD(Abs(n), d) IN [k |-> "num", n |-> n \div g, d |-> d \div g]
NumOf(n) == Num(n, 1)
IsNum(v) == v.k = "num"

NumAdd(a, b) == Num(a.n * b.d + b.n * a.d, a.d * b.d)
NumDivInt(a, m) == Num(a.n, a.d * m)

\* x <= y and x >= y on JavaScript numbers: false when either side is NaN; null
\* converts to 0.
ToNumber(v) == IF v.k = "null" THEN NumOf(0) ELSE v
NumLE(x, y) ==
    LET a == ToNumber(x) b == ToNumber(y)
    IN  a.k = "num" /\ b.k = "num" /\ a.n * b.d <= b.n * a.d
NumGE(x, y) ==
    LET a == ToNumber(x) b == ToNumber(y)
    IN  a.k = "num" /\ b.k = "num" /\ a.n * b.d >= b.n * a.d

\* Math.round of the rational n/d, d > 0: floor(n/d + 1/2).
MathRound(n, d) == (2 * n + d) \div (2 * d)

RECURSIVE SumSeq(_)
SumSeq(s) == IF s = <<>> THEN 0 ELSE Head(s) + SumSeq(Tail(s))

RECURSIVE SumNums(_)
SumNums(s) == IF s = <<>> THEN NumOf(0) ELSE NumAdd(Head(s), SumNums(Tail(s)))

MapSeq(s, F(_)) == [i \in 1..Len(s) |-> F(s[i])]

-----------------------------------------------------------------------------
(* The helpers of index.tsx *)

diffHours(a, b) ==
    IF Truthy(a) /\ Truthy(b) THEN Num(a.t - b.t, HOURS) ELSE NullNum

IsFinite(n) == n.k = "num"

\* avg that reduces the empty list to 0 instead of null.
avg_ZeroWhenEmpty(nums) ==
    LET arr == SelectSeq(nums, IsFinite)
    IN  IF Len(arr) > 0 THEN NumDivInt(SumNums(arr), Len(arr)) ELSE NumOf(0)

avg(nums) ==
    LET arr == SelectSeq(nums, IsFinite)
    IN  IF Len(arr) > 0 THEN NumDivInt(SumNums(arr), Len(arr)) ELSE NullNum

\* overlapMs without the floor at zero.
overlapMs_NoFloor(aStart, aEnd, bStart, bEnd) ==
    LET s == Max(aStart.t, bStart.t)
        e == Min(aEnd.t, bEnd.t)
    IN  e - s

overlapMs(aStart, aEnd, bStart, bEnd) ==
    LET s == Max(aStart.t, bStart.t)
        e == Min(aEnd.t, bEnd.t)
    IN  Max(0, e - s)

\* The stop intervals of one ticket, in ledger order.
stopsOf(ticketId, clocks) == SelectSeq(clocks, LAMBDA s : s.ticketId = ticketId)

\* deductedMs that takes the largest overlap instead of the sum of the overlaps.
deductedMs_Largest(start, end, stops, clock) ==
    LET o == MapSeq(stops, LAMBDA s :
                 LET sEnd == IF s.endAt.k = "none" THEN DateOf(clock) ELSE s.endAt
                 IN  overlapMs(start, end, s.startAt, sEnd))
    IN  IF Len(o) = 0 THEN 0
        ELSE CHOOSE m \in {o[i] : i \in 1..Len(o)} : \A i \in 1..Len(o) : m >= o[i]

deductedMs(start, end, stops, clock) ==
    SumSeq(MapSeq(stops, LAMBDA s :
        LET sEnd == IF s.endAt.k = "none" THEN DateOf(clock) ELSE s.endAt
        IN  overlapMs(start, end, s.startAt, sEnd)))

\* effMs without the floor at zero.
effMs_NoFloor(total, deducted) == total - deducted

effMs(total, deducted) == Max(0, total - deducted)

effectiveHoursExcludingStops(ticketId, start, end, clocks, clock) ==
    LET total == end.t - start.t
    IN  IF total <= 0 THEN NumOf(0)
        ELSE Num(effMs(total, deductedMs(start, end, stopsOf(ticketId, clocks), clock)), HOURS)

-----------------------------------------------------------------------------
(* computeTop8 *)

\* r => diffHours(x, y)! is evaluated: the filter of ttp / ttf let r through.
\* The ttp filter without the key-role test, the ttf filter with it.
inTtp_AnyRole(r) == Truthy(r.firstInterviewAt) /\ Truthy(r.offerSignedAt)
inTtf_KeyRoleOnly(r) == r.keyRole /\ Truthy(r.approvedAt) /\ Truthy(r.onboardedAt)

inTtp(r) == r.keyRole /\ Truthy(r.firstInterviewAt) /\ Truthy(r.offerSignedAt)
inTtf(r) == Truthy(r.approvedAt) /\ Truthy(r.onboardedAt)

ttpOf(reqs) ==
    avg(MapSeq(SelectSeq(reqs, inTtp),
               LAMBDA r : diffHours(r.offerSignedAt, r.firstInterviewAt)))

ttfOf(reqs) ==
    avg(MapSeq(SelectSeq(reqs, inTtf),
               LAMBDA r : diffHours(r.onboardedAt, r.approvedAt)))

isFairness(t) == t.type = "FAIRNESS"

within72Of(fairness, clocks, clock) ==
    Len(SelectSeq(fairness, LAMBDA t :
        /\ Truthy(t.closedAt)
        /\ NumLE(effectiveHoursExcludingStops(t.id, t.createdAt, t.closedAt, clocks, clock),
                 NumOf(72))))

\* close72RateOf with the closed FAIRNESS tickets as denominator.
close72RateOf_ClosedOnly(ticketList, clocks, clock) ==
    LET fairness == SelectSeq(ticketList, LAMBDA t : isFairness(t) /\ Truthy(t.closedAt))
        within72 == within72Of(fairness, clocks, clock)
    IN  IF Len(fairness) > 0
        THEN NumOf(MathRound(within72 * 100, Len(fairness)))
        ELSE NullNum

close72RateOf(ticketList, clocks, clock) ==
    LET fairness == SelectSeq(ticketList, isFairness)
        within72 == within72Of(fairness, clocks, clock)
    IN  IF Len(fairness) > 0
        THEN NumOf(MathRound(within72 * 100, Len(fairness)))
        ELSE NullNum

\* isOpenReq that leaves the tickets in progress out.
isOpenReq_OpenOnly(t) == t.type = "HIRING" /\ t.status = "OPEN"

isOpenReq(t) == t.type = "HIRING" /\ (t.status = "OPEN" \/ t.status = "IN_PROGRESS")

poolMultipleOf(ticketList) ==
    LET openReqs == Len(SelectSeq(ticketList, isOpenReq))
    IN  IF openReqs > 0 THEN NumOf(3) ELSE NullNum

\* eNPSOf that counts a score of 6 as passive.
eNPSOf_SixPassive(enpsList) ==
    LET total == Len(enpsList)
        promoters == Len(SelectSeq(enpsList, LAMBDA e : NumGE(e.score, NumOf(9))))
        detractors == Len(SelectSeq(enpsList, LAMBDA e : NumLE(e.score, NumOf(5))))
    IN  IF total > 0
        THEN NumOf(MathRound((promoters - detractors) * 100, total))
        ELSE NullNum

eNPSOf(enpsList) ==
    LET total == Len(enpsList)
        promoters == Len(SelectSeq(enpsList, LAMBDA e : NumGE(e.score, NumOf(9))))
        detractors == Len(SelectSeq(enpsList, LAMBDA e : NumLE(e.score, NumOf(6))))
    IN  IF total > 0
        THEN NumOf(MathRound((promoters - detractors) * 100, total))
        ELSE NullNum

\* computeTop8 calls getTime() on the date fields of every requisition its
\* filters let through, on createdAt / closedAt of every closed FAIRNESS ticket
\* and on the bounds of that ticket's stop intervals.  A field that is not a
\* Date object has no getTime: the call throws a TypeError.
reqThrows(r) ==
    \/ inTtp(r) /\ ~(HasGetTime(r.offerSignedAt) /\ HasGetTime(r.firstInterviewAt))
    \/ inTtf(r) /\ ~(HasGetTime(r.onboardedAt) /\ HasGetTime(r.approvedAt))

stopThrows(s) ==
    ~HasGetTime(s.startAt) \/ (s.endAt.k # "none" /\ ~HasGetTime(s.endAt))

ticketThrows(t, clocks) ==
    /\ isFairness(t) /\ Truthy(t.closedAt)
    /\ \/ ~(HasGetTime(t.closedAt) /\ HasGetTime(t.createdAt))
       \/ /\ t.closedAt.t - t.createdAt.t > 0
          /\ \E i \in 1..Len(clocks) : clocks[i].ticketId = t.id /\ stopThrows(clocks[i])

computeTop8Throws(ticketList, reqs, clocks) ==
    \/ \E i \in 1..Len(reqs) : reqThrows(reqs[i])
    \/ \E i \in 1..Len(ticketList) : ticketThrows(ticketList[i], clocks)

TypeError == [k |-> "TypeError"]

computeTop8(ticketList, reqs, enpsList, clocks, clock) ==
    IF computeTop8Throws(ticketList, reqs, clocks) THEN TypeError
    ELSE [k |-> "report",
          ttp |-> ttpOf(reqs),
          ttf |-> ttfOf(reqs),
          close72Rate |-> close72RateOf(ticketList, clocks, clock),
          poolMultiple |-> poolMultipleOf(ticketList),
          eNPS |-> eNPSOf(enpsList)]

-----------------------------------------------------------------------------
(* The demo data of runTests and of the first run of loadStore *)

hoursAgo(clock, h) == DateOf(clock - h * HOURS)

Ticket(id, type, status, createdAt, closedAt) ==
    [id |-> id, type |-> type, status |-> status, createdAt |-> createdAt,
     closedAt |-> closedAt]

Requisition(id, ticketId, keyRole, approvedAt, firstInterviewAt, offerSignedAt, onboardedAt) ==
    [id |-> id, ticketId |-> ticketId, keyRole |-> keyRole, approvedAt |-> approvedAt,
     firstInterviewAt |-> firstInterviewAt, offerSignedAt |-> offerSignedAt,
     onboardedAt |-> onboardedAt]

StopClock(id, ticketId, startAt, endAt) ==
    [id |-> id, ticketId |-> ticketId, startAt |-> startAt, endAt |-> endAt]

demoTickets(clock) ==
    << Ticket("F1", "FAIRNESS", "CLOSED", hoursAgo(clock, 60), hoursAgo(clock, 12)),
       Ticket("F2", "FAIRNESS", "CLOSED", hoursAgo(clock, 120), hoursAgo(clock, 20)),
       Ticket("R1", "HIRING", "OPEN", hoursAgo(clock, 10), NoDate),
       Ticket("R2", "HIRING", "IN_PROGRESS", hoursAgo(clock, 20), NoDate) >>

demoReqs(clock) ==
    << Requisition("RQ1", "R1", TRUE, hoursAgo(clock, 400), hoursAgo(clock, 300),
                   hoursAgo(clock, 276), hoursAgo(clock, 200)),
       Requisition("RQ2", "R2", TRUE, hoursAgo(clock, 500), hoursAgo(clock, 250),
                   hoursAgo(clock, 202), hoursAgo(clock, 140)),
       Requisition("RQ3", "X1", FALSE, hoursAgo(clock, 400), NoDate, NoDate,
                   hoursAgo(clock, 160)),
       Requisition("RQ4", "X2", FALSE, hoursAgo(clock, 200), NoDate, NoDate,
                   hoursAgo(clock, 80)) >>

demoENPS == MapSeq(<<10, 9, 9, 8, 7, 6, 0>>, LAMBDA n : [score |-> NumOf(n)])

-----------------------------------------------------------------------------
(* The file store: writeJSON / readJSON, reviveTicket, reviveStopClock,      *)
(* loadStore, save                                                           *)

\* JSON.stringify of a date field: a Date becomes its ISO-8601 string, a string
\* stays a string, null stays null and undefined is dropped.
jsonDate(v) == IF v.k = "date" THEN IsoOf(v.t) ELSE v

\* JSON.stringify of a number: NaN becomes null.
jsonNumber(v) == IF v.k = "nan" THEN NullNum ELSE v

jsonTicket(t) == [t EXCEPT !.createdAt = jsonDate(@), !.closedAt = jsonDate(@)]
jsonRequisition(r) ==
    [r EXCEPT !.approvedAt = jsonDate(@), !.firstInterviewAt = jsonDate(@),
              !.offerSignedAt = jsonDate(@), !.onboardedAt = jsonDate(@)]
jsonStopClock(s) == [s EXCEPT !.startAt = jsonDate(@), !.endAt = jsonDate(@)]
jsonENPS(e) == [e EXCEPT !.score = jsonNumber(@)]

\* new Date(x) of an ISO-8601 string or of a Date.
NewDate(v) == DateOf(v.t)

reviveTicket(t) ==
    [t EXCEPT !.createdAt = NewDate(@),
              !.closedAt = IF Truthy(@) THEN NewDate(@) ELSE NoDate]
reviveStopClock(s) ==
    [s EXCEPT !.startAt = NewDate(@),
              !.endAt = IF Truthy(@) THEN NewDate(@) ELSE NoDate]

\* A data directory without files: readJSON falls back to [].
NoFiles ==
    [tickets |-> <<>>, requisitions |-> <<>>, stopClocks |-> <<>>, enps |-> <<>>,
     sessions |-> <<>>]

\* The store and the files after loadStore has run on the files f at instant clock.
loadStore(f, clock) ==
    LET loaded == [tickets |-> MapSeq(f.tickets, reviveTicket),
                   requisitions |-> f.requisitions,
                   stopClocks |-> MapSeq(f.stopClocks, reviveStopClock),
                   enps |-> f.enps,
                   sessions |-> f.sessions,
                   files |-> f]
    IN  IF Len(loaded.tickets) = 0
        THEN [loaded EXCEPT
                !.tickets = demoTickets(clock),
                !.requisitions = demoReqs(clock),
                !.files = [f EXCEPT
                    !.tickets = MapSeq(demoTickets(clock), jsonTicket),
                    !.requisitions = MapSeq(demoReqs(clock), jsonRequisition)]]
        ELSE loaded

\* save(name): the file of the collection receives JSON.stringify of it.
saveTickets(f, list) == [f EXCEPT !.tickets = MapSeq(list, jsonTicket)]
saveRequisitions(f, list) == [f EXCEPT !.requisitions = MapSeq(list, jsonRequisition)]
saveStopClocks(f, list) == [f EXCEPT !.stopClocks = MapSeq(list, jsonStopClock)]
saveENPS(f, list) == [f EXCEPT !.enps = MapSeq(list, jsonENPS)]
saveSessions(f, list) == [f EXCEPT !.sessions = list]

-----------------------------------------------------------------------------
(* Sessions *)

SessionTTL == 7 * 24 * HOURS

NoCookie == ""
sidOf(n) == "s" \o ToString(n)
Cookies == {NoCookie} \cup {sidOf(n) : n \in 1..MaxSessions}

\* getSession without the test of expiresAt.
getSession_NoExpiry(c, sess, clock) ==
    /\ c # NoCookie
    /\ \E i \in 1..Len(sess) : sess[i].sid = c

\* getSession(req) # null, for a request carrying the cookie sid = c.
getSession(c, sess, clock) ==
    /\ c # NoCookie
    /\ \E i \in 1..Len(sess) :
        /\ sess[i].sid = c
        /\ \A j \in 1..(i - 1) : sess[j].sid # c
        /\ ~(clock > sess[i].expiresAt)

cuid(n) == "id-" \o ToString(n + 1)

-----------------------------------------------------------------------------
(* Responses *)

NoBody == [k |-> "none"]
Response(op, id, status, body) ==
    [op |-> op, id |-> id, status |-> status, body |-> body, cookie |-> ""]
NoResp == Response("none", "", 0, NoBody)
\* the answer to a request that carried the cookie c
Unauthorized(op, id, c) ==
    [Response(op, id, 401, [k |-> "unauthorized"]) EXCEPT !.cookie = c]
Ok(op, id, c) == [Response(op, id, 200, [k |-> "ok"]) EXCEPT !.cookie = c]

\* a file that does not exist, and the file holding the JSON text of a list
NoFile == [exists |-> FALSE, data |-> <<>>]
FileOf(data) == [exists |-> TRUE, data |-> data]
NoTmp == [stopClocks |-> NoFile, enps |-> NoFile]

NoCall == [fn |-> "none"]
NoRet == [k |-> "pending"]

-----------------------------------------------------------------------------
(* The server: start, clock and the request handlers of route *)

ClockStep == 50 * HOURS
ClockValues == {k * ClockStep : k \in 0..MaxClock}

\* Ticket ids that requests name in /api/tickets/{id}/stop and .../resume: a
\* FAIRNESS ticket of the seed data and an id no ticket has.
PathIds == {"F1", "X9"}

\* Values of body.type and Number(body.score) that requests submit.
BodyTypes == {"HIRING", "FAIRNESS", "", "BOGUS"}
BodyScores == {NumOf(-3), NumOf(7), NumOf(10), NumOf(99), NaN}

Init ==
    /\ now = 0
    /\ up = TRUE
    /\ LET s == loadStore(NoFiles, 0)
       IN  /\ tickets = s.tickets
           /\ requisitions = s.requisitions
           /\ stopClocks = s.stopClocks
           /\ enps = s.enps
           /\ sessions = s.sessions
           /\ files = s.files
    /\ nextId = 0
    /\ nextSid = 0
    /\ resp = NoResp
    /\ call = NoCall
    /\ requests = <<>>
    /\ tmp = NoTmp
    /\ ret = NoRet

\* The wall clock moves; Date.now() is not monotonic.
ClockTick ==
    /\ \E t \in ClockValues \ {now} : now' = t
    /\ resp' = NoResp
    /\ UNCHANGED <<up, store, files, nextId, nextSid, call, ret, requests, tmp>>

\* The process stops (or has crashed) and start() runs again: loadStore.
Restart ==
    /\ LET s == loadStore(files, now)
       IN  /\ tickets' = s.tickets
           /\ requisitions' = s.requisitions
           /\ stopClocks' = s.stopClocks
           /\ enps' = s.enps
           /\ sessions' = s.sessions
           /\ files' = s.files
    /\ up' = TRUE
    /\ resp' = NoResp
    /\ UNCHANGED <<now, nextId, nextSid, call, ret, requests, tmp>>

\* GET /auth/dev with WECOM_DEV_ALLOW_FALLBACK = 1: createSession.
Login ==
    /\ up
    /\ nextSid < MaxSessions
    /\ LET sess == [sid |-> sidOf(nextSid + 1), createdAt |-> now,
                    expiresAt |-> now + SessionTTL]
       IN  /\ sessions' = Append(sessions, sess)
           /\ files' = saveSessions(files, sessions')
           /\ resp' = Response("GET /auth/dev", sess.sid, 302, [k |-> "set-cookie"])
    /\ nextSid' = nextSid + 1
    /\ UNCHANGED <<now, up, tickets, requisitions, stopClocks, enps, nextId, call, ret, requests, tmp>>

\* Logout that clears the cookie and keeps the session in the store.
Logout_CookieOnly(c) ==
    /\ up
    /\ resp' = Response("GET /logout", c, 302, [k |-> "clear-cookie"])
    /\ UNCHANGED <<now, up, tickets, requisitions, stopClocks, enps, sessions, files,
                   nextId, nextSid, call, ret, requests, tmp>>

\* GET /logout
Logout(c) ==
    /\ up
    /\ IF c # NoCookie
       THEN /\ sessions' = SelectSeq(sessions, LAMBDA s : s.sid # c)
            /\ files' = saveSessions(files, sessions')
       ELSE UNCHANGED <<sessions, files>>
    /\ resp' = Response("GET /logout", c, 302, [k |-> "clear-cookie"])
    /\ UNCHANGED <<now, up, tickets, requisitions, stopClocks, enps, nextId, nextSid,
                   call, ret, requests, tmp>>

\* GetKpi whose computation reverses the ticket list in place.
GetKpi_Reversing ==
    /\ up
    /\ LET r == computeTop8(tickets, requisitions, enps, stopClocks, now)
       IN  IF r = TypeError
           THEN /\ resp' = Response("GET /api/kpi", "", 0, r)
                /\ up' = FALSE
           ELSE /\ resp' = Response("GET /api/kpi", "", 200, r)
                /\ up' = up
    /\ tickets' = [i \in 1..Len(tickets) |-> tickets[Len(tickets) + 1 - i]]
    /\ UNCHANGED <<now, requisitions, stopClocks, enps, sessions, files, nextId,
                   nextSid, call, ret, requests, tmp>>

\* GET /api/kpi: sendJSON(res, computeTop8(...)).  An exception thrown by
\* computeTop8 leaves route uncaught: no response is sent and the process ends.
GetKpi ==
    /\ up
    /\ LET r == computeTop8(tickets, requisitions, enps, stopClocks, now)
       IN  IF r = TypeError
           THEN /\ resp' = Response("GET /api/kpi", "", 0, r)
                /\ up' = FALSE
           ELSE /\ resp' = Response("GET /api/kpi", "", 200, r)
                /\ up' = up
    /\ UNCHANGED <<now, store, files, nextId, nextSid, call, ret, requests, tmp>>

\* POST /api/tickets
PostTicket(c, type, keyRole) ==
    /\ up
    /\ IF ~getSession(c, sessions, now)
       THEN /\ resp' = Unauthorized("POST /api/tickets", "", c)
            /\ UNCHANGED <<store, files, nextId>>
       ELSE /\ Len(tickets) < Len(demoTickets(0)) + MaxPosted
            /\ LET id == cuid(nextId)
                   t == Ticket(id, IF type = "" THEN "OTHER" ELSE type, "OPEN",
                               DateOf(now), NoDate)
               IN  /\ tickets' = <<t>> \o tickets
                   /\ IF t.type = "HIRING"
                      THEN /\ requisitions' = Append(requisitions,
                                  Requisition(cuid(nextId + 1), id, keyRole,
                                              NoDate, NoDate, NoDate, NoDate))
                           /\ files' = saveRequisitions(saveTickets(files, tickets'),
                                                        requisitions')
                           /\ nextId' = nextId + 2
                      ELSE /\ files' = saveTickets(files, tickets')
                           /\ nextId' = nextId + 1
                           /\ UNCHANGED requisitions
                   /\ resp' = Ok("POST /api/tickets", id, c)
            /\ UNCHANGED <<stopClocks, enps, sessions>>
    /\ UNCHANGED <<now, up, nextSid, call, ret, requests, tmp>>

\* PostStop that answers ok without a new interval when the ticket is paused.
PostStop_Dedup(c, id) ==
    /\ up
    /\ IF ~getSession(c, sessions, now)
       THEN /\ resp' = Unauthorized("POST /stop", id, c)
            /\ UNCHANGED <<stopClocks, files, nextId>>
       ELSE /\ Len(stopClocks) < MaxStops
            /\ IF \E i \in 1..Len(stopClocks) :
                      stopClocks[i].ticketId = id /\ ~Truthy(stopClocks[i].endAt)
               THEN UNCHANGED <<stopClocks, files, nextId>>
               ELSE /\ stopClocks' = Append(stopClocks,
                                    StopClock(cuid(nextId), id, DateOf(now), NoDate))
                    /\ files' = saveStopClocks(files, stopClocks')
                    /\ nextId' = nextId + 1
            /\ resp' = Ok("POST /stop", id, c)
    /\ UNCHANGED <<now, up, tickets, requisitions, enps, sessions, nextSid, call, ret, requests, tmp>>

\* POST /api/tickets/{id}/stop
PostStop(c, id) ==
    /\ up
    /\ IF ~getSession(c, sessions, now)
       THEN /\ resp' = Unauthorized("POST /stop", id, c)
            /\ UNCHANGED <<stopClocks, files, nextId>>
       ELSE /\ Len(stopClocks) < MaxStops
            /\ stopClocks' = Append(stopClocks,
                                    StopClock(cuid(nextId), id, DateOf(now), NoDate))
            /\ files' = saveStopClocks(files, stopClocks')
            /\ nextId' = nextId + 1
            /\ resp' = Ok("POST /stop", id, c)
    /\ UNCHANGED <<now, up, tickets, requisitions, enps, sessions, nextSid, call, ret, requests, tmp>>

\* [...store.stopClocks].reverse().find(s => s.ticketId === id && !s.endAt):
\* the ledger position of the entry found, 0 when there is none.
\* isOpenFor that takes the closed intervals of the ticket too.
isOpenFor_Any(s, id) == s.ticketId = id

isOpenFor(s, id) == s.ticketId = id /\ ~Truthy(s.endAt)

\* latestOpen by the greatest startAt instead of the ledger position.
latestOpen_ByStartAt(clocks, id) ==
    LET open == {i \in 1..Len(clocks) : isOpenFor(clocks[i], id)}
    IN  IF open = {} THEN 0
        ELSE CHOOSE i \in open :
                \A j \in open :
                    \/ clocks[j].startAt.t < clocks[i].startAt.t
                    \/ clocks[j].startAt.t = clocks[i].startAt.t /\ j <= i

latestOpen(clocks, id) ==
    LET open == {i \in 1..Len(clocks) : isOpenFor(clocks[i], id)}
    IN  IF open = {} THEN 0 ELSE CHOOSE i \in open : \A j \in open : j <= i

\* POST /api/tickets/{id}/resume
PostResume(c, id) ==
    /\ up
    /\ IF ~getSession(c, sessions, now)
       THEN /\ resp' = Unauthorized("POST /resume", id, c)
            /\ UNCHANGED <<stopClocks, files>>
       ELSE /\ LET latest == latestOpen(stopClocks, id)
               IN  stopClocks' = IF latest # 0
                                 THEN [stopClocks EXCEPT ![latest].endAt = DateOf(now)]
                                 ELSE stopClocks
            /\ files' = saveStopClocks(files, stopClocks')
            /\ resp' = Ok("POST /resume", id, c)
    /\ UNCHANGED <<now, up, tickets, requisitions, enps, sessions, nextId, nextSid,
                   call, ret, requests, tmp>>

\* Math.max(0, Math.min(10, x)); NaN stays NaN.
clampScore(x) ==
    IF x.k # "num" THEN NaN
    ELSE IF NumLE(x, NumOf(0)) THEN NumOf(0)
    ELSE IF NumGE(x, NumOf(10)) THEN NumOf(10)
    ELSE x

\* POST /api/enps
PostEnps(c, score) ==
    /\ up
    /\ IF ~getSession(c, sessions, now)
       THEN /\ resp' = Unauthorized("POST /api/enps", "", c)
            /\ UNCHANGED <<enps, files>>
       ELSE /\ Len(enps) < MaxEnps
            /\ enps' = Append(enps, [score |-> clampScore(score)])
            /\ files' = saveENPS(files, enps')
            /\ resp' = Ok("POST /api/enps", "", c)
    /\ UNCHANGED <<now, up, tickets, requisitions, stopClocks, sessions, nextId, nextSid,
                   call, ret, requests, tmp>>

Next ==
    \/ ClockTick
    \/ Restart
    \/ Login
    \/ \E c \in Cookies : Logout(c)
    \/ GetKpi
    \/ \E c \in Cookies, type \in BodyTypes, keyRole \in BOOLEAN : PostTicket(c, type, keyRole)
    \/ \E c \in Cookies, id \in PathIds : PostStop(c, id)
    \/ \E c \in Cookies, id \in PathIds : PostResume(c, id)
    \/ \E c \in Cookies, score \in BodyScores : PostEnps(c, score)

Spec == Init /\ [][Next]_vars

-----------------------------------------------------------------------------
(* The service seen from a logged-in client.  InitLoggedIn is the state     *)
(* Login leads to from Init; the specifications below restrict Next to the  *)
(* handlers of one concern.                                                 *)

InitLoggedIn ==
    /\ now = 0
    /\ up = TRUE
    /\ LET s == loadStore(NoFiles, 0)
           sess == [sid |-> sidOf(1), createdAt |-> 0, expiresAt |-> SessionTTL]
       IN  /\ tickets = s.tickets
           /\ requisitions = s.requisitions
           /\ stopClocks = s.stopClocks
           /\ enps = s.enps
           /\ sessions = <<sess>>
           /\ files = saveSessions(s.files, <<sess>>)
    /\ nextId = 0
    /\ nextSid = 1
    /\ resp = NoResp
    /\ call = NoCall
    /\ requests = <<>>
    /\ tmp = NoTmp
    /\ ret = NoRet

\* The stop-clock ledger: pause and resume under a moving clock.
NextLedger ==
    \/ ClockTick
    \/ \E c \in {NoCookie, sidOf(1)}, id \in PathIds : PostStop(c, id)
    \/ \E c \in {NoCookie, sidOf(1)}, id \in PathIds : PostResume(c, id)

SpecLedger == InitLoggedIn /\ [][NextLedger]_vars

\* Date.now() of a clock that never goes back.
ClockAdvance ==
    /\ \E t \in ClockValues : t > now /\ now' = t
    /\ resp' = NoResp
    /\ UNCHANGED <<up, store, files, nextId, nextSid, call, ret, requests, tmp>>

\* The ledger under a non-decreasing clock, restarts included.
NextLedgerMono ==
    \/ ClockAdvance
    \/ Restart
    \/ \E c \in Cookies, id \in PathIds : PostStop(c, id)
    \/ \E c \in Cookies, id \in PathIds : PostResume(c, id)

SpecLedgerMono == InitLoggedIn /\ [][NextLedgerMono]_vars

\* The file store: submissions, restarts and the KPI endpoint.
NextStore ==
    \/ ClockTick
    \/ Restart
    \/ GetKpi
    \/ \E c \in Cookies, type \in BodyTypes, keyRole \in BOOLEAN : PostTicket(c, type, keyRole)
    \/ \E c \in Cookies, score \in BodyScores : PostEnps(c, score)

SpecStore == InitLoggedIn /\ [][NextStore]_vars

\* GET /api/kpi between requests that add a ticket, a stop interval and a
\* survey response, one kind of each, and restarts.
NextKpi ==
    \/ ClockTick
    \/ Restart
    \/ GetKpi
    \/ PostTicket(sidOf(1), "FAIRNESS", FALSE)
    \/ PostStop(sidOf(1), "F1")
    \/ PostEnps(sidOf(1), NumOf(7))

SpecKpi == InitLoggedIn /\ [][NextKpi]_vars

\* Every handler of route, one kind of request each, for a client that logs in
\* and out.  The event loop serves each request that keeps arriving.
NextService ==
    \/ ClockTick
    \/ Restart
    \/ Login
    \/ Logout(sidOf(1))
    \/ GetKpi
    \/ PostTicket(sidOf(1), "FAIRNESS", FALSE)
    \/ PostStop(sidOf(1), cuid(0))
    \/ PostResume(sidOf(1), cuid(0))
    \/ PostEnps(sidOf(1), NumOf(7))

SpecService == Init /\ [][NextService]_vars /\ WF_vars(NextService)

\* Date.now() around the end of a session's life, going forward: the instant of
\* its expiry and the millisecond after it.
SessionClockValues == {0, SessionTTL, SessionTTL + 1}

ClockJump ==
    /\ \E t \in SessionClockValues : t > now /\ now' = t
    /\ resp' = NoResp
    /\ UNCHANGED <<up, store, files, nextId, nextSid, call, ret, requests, tmp>>

\* GET /: sendHTML(res, htmlIndex(sess)), the page showing whether the request
\* is logged in.
GetIndex(c) ==
    /\ up
    /\ resp' = [Response("GET /", "", 200,
                         [k |-> IF getSession(c, sessions, now)
                                THEN "logged-in" ELSE "anonymous"])
                EXCEPT !.cookie = c]
    /\ UNCHANGED <<now, up, store, files, nextId, nextSid, call, ret, requests, tmp>>

\* The state Login leads to from Init for another client, whose session s0 no
\* request of the clients modelled here presents.
InitSession ==
    /\ now = 0
    /\ up = TRUE
    /\ LET s == loadStore(NoFiles, 0)
           sess == [sid |-> sidOf(0), createdAt |-> 0, expiresAt |-> SessionTTL]
       IN  /\ tickets = s.tickets
           /\ requisitions = s.requisitions
           /\ stopClocks = s.stopClocks
           /\ enps = s.enps
           /\ sessions = <<sess>>
           /\ files = saveSessions(s.files, <<sess>>)
    /\ nextId = 0
    /\ nextSid = 0
    /\ resp = NoResp
    /\ call = NoCall
    /\ requests = <<>>
    /\ tmp = NoTmp
    /\ ret = NoRet

\* tickets, stop intervals and survey responses created by requests so far
Created == (Len(tickets) - Len(demoTickets(0))) + Len(stopClocks) + Len(enps)

\* Sessions that are created, expire and are logged out, and the requests that
\* ask for one; the logged-in requests create at most MaxPosted entities.
NextSession ==
    \/ ClockJump
    \/ Restart
    \/ Login
    \/ \E c \in Cookies : Logout(c)
    \/ \E c \in Cookies : GetIndex(c)
    \/ \E c \in Cookies :
          /\ getSession(c, sessions, now) => Created < MaxPosted
          /\ \/ PostTicket(c, "FAIRNESS", FALSE)
             \/ PostStop(c, "F1")
             \/ PostEnps(c, NumOf(7))
    \/ \E c \in Cookies : PostResume(c, "F1")

SpecSession == InitSession /\ [][NextSession]_vars

-----------------------------------------------------------------------------
(* Requests in flight.  A POST handler is an async function: route returns  *)
(* at its first await and the handler goes on when readBody, fs.writeFile   *)
(* and fs.rename complete, other requests being served in between.  Each   *)
(* await is one step here.  fs.writeFile is taken as one step that leaves   *)
(* the whole text in the file.                                              *)

AsyncOps == {"POST /stop", "POST /api/enps", "GET /api/kpi", "GET /nowhere"}
AsyncPosts == {"POST /stop", "POST /api/enps"}

\* the request body: none, a well-formed one, one that JSON.parse or
\* decodeURIComponent rejects
Bodies == {"empty", "json", "malformed"}

\* name of the collection the handler of op saves
collOf(op) == IF op = "POST /stop" THEN "stopClocks" ELSE "enps"

\* pc: "body" while readBody is awaited, "write" while fs.writeFile is,
\* "rename" while fs.rename is, "done" once the handler has returned, "failed"
\* once it has thrown; text is the JSON text handed to fs.writeFile; sent counts
\* the responses; err names the exception.
Request(op, c, body, pc, sent, status, err) ==
    [op |-> op, cookie |-> c, body |-> body, pc |-> pc, text |-> <<>>,
     sent |-> sent, status |-> status, err |-> err]

\* route(req, res) up to its return
Receive(op, c, body) ==
    /\ up
    /\ Len(requests) < MaxRequests
    /\ LET answered(status) == Request(op, c, body, "done", 1, status, "")
       IN  IF op = "GET /api/kpi"
           THEN IF computeTop8(tickets, requisitions, enps, stopClocks, now) = TypeError
                THEN /\ requests' = Append(requests,
                                           Request(op, c, body, "failed", 0, 0, "TypeError"))
                     /\ up' = FALSE
                ELSE /\ requests' = Append(requests, answered(200))
                     /\ up' = up
           ELSE /\ up' = up
                /\ requests' = Append(requests,
                      IF op \notin AsyncPosts THEN answered(404)
                      ELSE IF ~getSession(c, sessions, now) THEN answered(401)
                      ELSE Request(op, c, body, "body", 0, 0, ""))
    /\ UNCHANGED <<now, store, files, nextId, nextSid, resp, call, ret, tmp>>

\* readBody has completed: it throws on a malformed body, and the rejection of
\* the handler's promise, which nothing catches, ends the process or not,
\* depending on the version of Node.  Otherwise the handler changes the store and
\* calls save, which hands JSON.stringify of the collection to fs.writeFile.
BodyRead(i) ==
    /\ up
    /\ requests[i].pc = "body"
    /\ IF requests[i].body = "malformed"
       THEN /\ requests' = [requests EXCEPT ![i].pc = "failed", ![i].err = "SyntaxError"]
            /\ up' \in BOOLEAN
            /\ UNCHANGED <<stopClocks, enps, nextId>>
       ELSE /\ up' = up
            /\ IF requests[i].op = "POST /stop"
               THEN /\ stopClocks' = Append(stopClocks,
                                       StopClock(cuid(nextId), "F1", DateOf(now), NoDate))
                    /\ nextId' = nextId + 1
                    /\ requests' = [requests EXCEPT ![i].pc = "write",
                                       ![i].text = MapSeq(stopClocks', jsonStopClock)]
                    /\ UNCHANGED enps
               ELSE /\ enps' = Append(enps,
                          [score |-> clampScore(IF requests[i].body = "json"
                                                THEN NumOf(7) ELSE NaN)])
                    /\ requests' = [requests EXCEPT ![i].pc = "write",
                                       ![i].text = MapSeq(enps', jsonENPS)]
                    /\ UNCHANGED <<stopClocks, nextId>>
    /\ UNCHANGED <<now, tickets, requisitions, sessions, files, nextSid, resp, call,
                   ret, tmp>>

\* fs.writeFile(tmp, text) has completed
WriteTmp(i) ==
    /\ up
    /\ requests[i].pc = "write"
    /\ tmp' = [tmp EXCEPT ![collOf(requests[i].op)] = FileOf(requests[i].text)]
    /\ requests' = [requests EXCEPT ![i].pc = "rename"]
    /\ UNCHANGED <<now, up, store, files, nextId, nextSid, resp, call, ret>>

\* fs.rename(tmp, file) has completed: the file takes the place of the target,
\* and the handler answers; without a tmp file it fails with ENOENT and save
\* throws.
Rename(i) ==
    /\ up
    /\ requests[i].pc = "rename"
    /\ LET coll == collOf(requests[i].op)
       IN  IF tmp[coll].exists
           THEN /\ files' = [files EXCEPT ![coll] = tmp[coll].data]
                /\ tmp' = [tmp EXCEPT ![coll] = NoFile]
                /\ requests' = [requests EXCEPT ![i].pc = "done", ![i].sent = @ + 1,
                                                ![i].status = 200]
                /\ up' = up
           ELSE /\ requests' = [requests EXCEPT ![i].pc = "failed", ![i].err = "ENOENT"]
                /\ up' \in BOOLEAN
                /\ UNCHANGED <<files, tmp>>
    /\ UNCHANGED <<now, store, nextId, nextSid, resp, call, ret>>

\* a continuation that the event loop can run
HandlerStep == \E i \in 1..Len(requests) : BodyRead(i) \/ WriteTmp(i) \/ Rename(i)

NextAsync ==
    \/ \E op \in AsyncOps, c \in {NoCookie, sidOf(1)} :
          \E body \in (IF op \in AsyncPosts THEN Bodies ELSE {"empty"}) :
              Receive(op, c, body)
    \/ \E i \in 1..Len(requests) : BodyRead(i)
    \/ \E i \in 1..Len(requests) : WriteTmp(i)
    \/ \E i \in 1..Len(requests) : Rename(i)

\* The event loop runs every continuation that is ready, and the file
\* operations complete.
SpecAsync == InitLoggedIn /\ [][NextAsync]_vars /\ WF_vars(HandlerStep)

-----------------------------------------------------------------------------
(* Direct calls of the pure functions, on inputs drawn from bounded sets *)

SeqsUpTo(S, n) == UNION {[1..m -> S] : m \in 0..n}

HalfHour == HOURS \div 2
H(h) == h * HOURS

NoServer ==
    /\ up = FALSE
    /\ requests = <<>>
    /\ tmp = NoTmp
    /\ sessions = <<>>
    /\ files = NoFiles
    /\ nextId = 0
    /\ nextSid = 0
    /\ resp = NoResp
    /\ ret = NoRet

\* effectiveHoursExcludingStops("T1", start, end, stopClocks): instants on a grid
\* of half hours, stop intervals of the ticket itself and of another ticket.
EffTimes == {0, HalfHour, 2 * HalfHour}
EffNows == {HalfHour, 3 * HalfHour}
EffStopOptions ==
    {StopClock("SC", "T1", DateOf(a), b) :
        a \in EffTimes, b \in {NoDate} \cup {DateOf(t) : t \in EffTimes}}
    \cup {StopClock("SC", "T2", DateOf(0), b) : b \in {NoDate, DateOf(2 * HalfHour)}}

InitEff ==
    /\ NoServer
    /\ now \in EffNows
    /\ stopClocks \in SeqsUpTo(EffStopOptions, MaxEffStops)
    /\ call \in {[fn |-> "effectiveHoursExcludingStops", ticketId |-> "T1",
                  start |-> DateOf(a), end |-> DateOf(b)] : a, b \in EffTimes}
    /\ tickets = <<>>
    /\ requisitions = <<>>
    /\ enps = <<>>

CallEff ==
    /\ call.fn = "effectiveHoursExcludingStops"
    /\ ret = NoRet
    /\ ret' = effectiveHoursExcludingStops(call.ticketId, call.start, call.end,
                                           stopClocks, now)
    /\ UNCHANGED <<now, up, store, files, nextId, nextSid, resp, call, requests, tmp>>

SpecEff == InitEff /\ [][CallEff]_vars

\* overlapMs(aStart, aEnd, bStart, bEnd): the four instants on a grid of half
\* hours, in every order.
OverlapTimes == {k * HalfHour : k \in 0..MaxInstant}

InitOverlap ==
    /\ NoServer
    /\ now = 0
    /\ stopClocks = <<>>
    /\ call \in {[fn |-> "overlapMs", aStart |-> DateOf(a), aEnd |-> DateOf(b),
                  bStart |-> DateOf(c), bEnd |-> DateOf(d)] :
                    a, b, c, d \in OverlapTimes}
    /\ tickets = <<>>
    /\ requisitions = <<>>
    /\ enps = <<>>

CallOverlap ==
    /\ call.fn = "overlapMs"
    /\ ret = NoRet
    /\ ret' = NumOf(overlapMs(call.aStart, call.aEnd, call.bStart, call.bEnd))
    /\ UNCHANGED <<now, up, store, files, nextId, nextSid, resp, call, requests, tmp>>

SpecOverlap == InitOverlap /\ [][CallOverlap]_vars

\* computeTop8(tickets, requisitions, enps, stopClocks): one collection varies
\* at a time, the others hold the demo data.
TId(i) == "T" \o ToString(i)

TicketKinds ==
    { [type |-> "FAIRNESS", status |-> "CLOSED", closedAt |-> DateOf(H(72))],
      [type |-> "FAIRNESS", status |-> "CLOSED", closedAt |-> DateOf(H(100))],
      [type |-> "FAIRNESS", status |-> "CLOSED", closedAt |-> DateOf(H(72) + HalfHour)],
      [type |-> "FAIRNESS", status |-> "OPEN", closedAt |-> NoDate],
      [type |-> "HIRING", status |-> "OPEN", closedAt |-> NoDate],
      [type |-> "HIRING", status |-> "IN_PROGRESS", closedAt |-> NoDate],
      [type |-> "HIRING", status |-> "CLOSED", closedAt |-> DateOf(H(50))] }

TicketLists ==
    { [i \in 1..Len(ks) |-> Ticket(TId(i), ks[i].type, ks[i].status, DateOf(0), ks[i].closedAt)] :
        ks \in SeqsUpTo(TicketKinds, MaxTickets) }

ReportStopOptions ==
    {StopClock("SC", id, w[1], w[2]) :
        id \in {TId(1), TId(2)},
        w \in {<<DateOf(H(10)), DateOf(H(38))>>, <<DateOf(H(20)), NoDate>>}}

ReqPool(clock) ==
    demoReqs(clock) \o
    << Requisition("RQ5", "R1", TRUE, hoursAgo(clock, 90), hoursAgo(clock, 60), NoDate,
                   hoursAgo(clock, 30)),
       Requisition("RQ6", "X3", FALSE, NoDate, hoursAgo(clock, 50), hoursAgo(clock, 40),
                   NoDate),
       Requisition("RQ7", "X4", TRUE, NoDate, DateOf(clock - H(31) - HalfHour),
                   hoursAgo(clock, 1), NoDate),
       Requisition("RQ8", "R2", TRUE, hoursAgo(clock, 70), NoDate, hoursAgo(clock, 5),
                   NoDate) >>

RECURSIVE Pick(_, _, _)
Pick(pool, S, i) ==
    IF i > Len(pool) THEN <<>>
    ELSE (IF i \in S THEN <<pool[i]>> ELSE <<>>) \o Pick(pool, S, i + 1)

ReqLists(clock) == {Pick(ReqPool(clock), S, 1) : S \in SUBSET (1..MaxReqPool)}

surveyOf(p, q, d) ==
    [i \in 1..(p + q + d) |->
        [score |-> NumOf(IF i <= p THEN (IF i % 2 = 1 THEN 10 ELSE 9)
                         ELSE IF i <= p + q THEN (IF i % 2 = 1 THEN 7 ELSE 8)
                         ELSE (IF i % 2 = 1 THEN 6 ELSE 0))]]

SurveyLists ==
    {surveyOf(p, q, d) : p \in 0..MaxSurvey, q \in 0..MaxSurvey, d \in 0..MaxSurvey}
    \cup {demoENPS}

InitReport ==
    /\ NoServer
    /\ call = [fn |-> "computeTop8"]
    /\ \/ /\ now \in {H(30), H(120)}
          /\ tickets \in TicketLists
          /\ stopClocks \in SeqsUpTo(ReportStopOptions, MaxEffStops)
          /\ requisitions = demoReqs(now)
          /\ enps = demoENPS
       \/ /\ now = 0
          /\ tickets = demoTickets(now)
          /\ stopClocks = <<>>
          /\ requisitions \in ReqLists(now)
          /\ enps = demoENPS
       \/ /\ now = 0
          /\ tickets = demoTickets(now)
          /\ stopClocks = <<>>
          /\ requisitions = demoReqs(now)
          /\ enps \in {e \in SurveyLists : Len(e) <= MaxSurvey}
       \/ /\ now = 0
          /\ tickets = <<>>
          /\ stopClocks = <<>>
          /\ requisitions = <<>>
          /\ enps = <<>>

CallReport ==
    /\ call.fn = "computeTop8"
    /\ ret = NoRet
    /\ ret' = computeTop8(tickets, requisitions, enps, stopClocks, now)
    /\ UNCHANGED <<now, up, store, files, nextId, nextSid, resp, call, requests, tmp>>

SpecReport == InitReport /\ [][CallReport]_vars

-----------------------------------------------------------------------------
(* Properties of effectiveHoursExcludingStops (SpecEff) *)

EffDone == call.fn = "effectiveHoursExcludingStops" /\ ret # NoRet

\* end - start of the call, in milliseconds.
WindowMs == call.end.t - call.start.t

\* Some stop interval of the ticket shares a half-hour slot with the window; an
\* interval without endAt runs until now.
OwnStopIntersects ==
    \E i \in 1..Len(stopClocks) :
        LET s == stopClocks[i]
            sEnd == IF s.endAt.k = "none" THEN now ELSE s.endAt.t
        IN  /\ s.ticketId = call.ticketId
            /\ \E t \in EffTimes :
                /\ call.start.t <= t /\ t + HalfHour <= call.end.t
                /\ s.startAt.t <= t /\ t + HalfHour <= sEnd

\* ret = ms / HOURS, ret <= ms / HOURS
RetEqualsMs(ms) == ret.k = "num" /\ ret.n * HOURS = ms * ret.d
RetAtMostMs(ms) == ret.k = "num" /\ ret.n * HOURS <= ms * ret.d

\* C2, as stated: for every window, 0 <= r <= (end - start) in hours, r = 0 when
\* end <= start, and r = (end - start) in hours when no stop interval of the
\* ticket intersects the window.
C2_AsStated ==
    EffDone =>
        /\ ret.k = "num" /\ ret.n >= 0
        /\ RetAtMostMs(WindowMs)
        /\ (WindowMs <= 0 => ret = NumOf(0))
        /\ (~OwnStopIntersects => RetEqualsMs(WindowMs))

\* C2, amended: 0 <= r <= max(0, end - start) in hours; r = 0 when end <= start;
\* r = max(0, end - start) in hours when no stop interval of the ticket
\* intersects the window; the stop intervals of other tickets never change r.
C2_EffectiveBounds ==
    EffDone =>
        /\ ret.k = "num" /\ ret.n >= 0
        /\ RetAtMostMs(Max(0, WindowMs))
        /\ (WindowMs <= 0 => ret = NumOf(0))
        /\ (~OwnStopIntersects => RetEqualsMs(Max(0, WindowMs)))
        /\ ret = effectiveHoursExcludingStops(call.ticketId, call.start, call.end,
                     SelectSeq(stopClocks, LAMBDA s : s.ticketId = call.ticketId), now)

\* A proper window that a stop interval of the ticket shortens, without
\* emptying it, while another ticket has a stop interval over the same time.
C2_Witness ==
    /\ EffDone
    /\ WindowMs > 0
    /\ OwnStopIntersects
    /\ ret.n > 0 /\ ~RetEqualsMs(WindowMs)
    /\ \E i \in 1..Len(stopClocks) : stopClocks[i].ticketId # call.ticketId

-----------------------------------------------------------------------------
(* Properties of computeTop8 (SpecReport) *)

ReportDone == call.fn = "computeTop8" /\ ret.k = "report"

FairnessIdx == {i \in 1..Len(tickets) : tickets[i].type = "FAIRNESS"}

\* The ticket is closed and its effective duration from createdAt to closedAt,
\* its own stop intervals excluded, is at most 72 hours.
ClosedWithin72(t) ==
    /\ t.closedAt.k # "none"
    /\ LET eff == effectiveHoursExcludingStops(t.id, t.createdAt, t.closedAt,
                                               stopClocks, now)
       IN  eff.n <= 72 * eff.d

Within72Idx == {i \in FairnessIdx : ClosedWithin72(tickets[i])}

\* v is the integer nearest to a / b (b > 0), halves going up.
IsRounded(v, a, b) ==
    /\ v.k = "num" /\ v.d = 1
    /\ 2 * b * v.n <= 2 * a + b
    /\ 2 * a + b < 2 * b * (v.n + 1)

C3_Ttf180 ==
    (ReportDone /\ requisitions = demoReqs(now)) => ret.ttf = NumOf(180)

\* The index sets the metrics are defined on.
TtpIdx ==
    {i \in 1..Len(requisitions) :
        /\ requisitions[i].keyRole
        /\ requisitions[i].firstInterviewAt.k # "none"
        /\ requisitions[i].offerSignedAt.k # "none"}
TtfIdx ==
    {i \in 1..Len(requisitions) :
        /\ requisitions[i].approvedAt.k # "none"
        /\ requisitions[i].onboardedAt.k # "none"}
OpenHiringIdx ==
    {i \in 1..Len(tickets) :
        tickets[i].type = "HIRING" /\ tickets[i].status \in {"OPEN", "IN_PROGRESS"}}

NumberIffNonEmpty(v, S) == IF S = {} THEN v = NullNum ELSE v.k = "num"

\* C5: each metric is null exactly when its data set is empty and a number
\* otherwise.
C5_NullIffEmpty ==
    ReportDone =>
        /\ NumberIffNonEmpty(ret.ttp, TtpIdx)
        /\ NumberIffNonEmpty(ret.ttf, TtfIdx)
        /\ NumberIffNonEmpty(ret.close72Rate, FairnessIdx)
        /\ NumberIffNonEmpty(ret.poolMultiple, OpenHiringIdx)
        /\ NumberIffNonEmpty(ret.eNPS, DOMAIN enps)

\* FAIRNESS tickets exist and none qualifies: the rate is the number 0, while
\* poolMultiple, without an open HIRING ticket, is null.
C5_Witness ==
    /\ ReportDone
    /\ FairnessIdx # {}
    /\ ret.close72Rate = NumOf(0)
    /\ ret.poolMultiple = NullNum

\* Sum of f[i] over the finite set S.
RECURSIVE SumOver(_, _)
SumOver(S, f) ==
    IF S = {} THEN 0
    ELSE LET i == CHOOSE j \in S : TRUE IN f[i] + SumOver(S \ {i}, f)

\* b - a in half hours (the instants of the inputs lie on the half-hour grid).
HalfHoursBetween(a, b) == (b.t - a.t) \div HalfHour

\* v is the mean, in hours, of the half-hour amounts f[i], i in S.
IsMeanHours(v, S, f) ==
    IF S = {} THEN v = NullNum
    ELSE v.k = "num" /\ 2 * Cardinality(S) * v.n = SumOver(S, f) * v.d

Without(list, i) == SubSeq(list, 1, i - 1) \o SubSeq(list, i + 1, Len(list))

\* C8: ttp is the mean of offerSignedAt - firstInterviewAt, in hours, over the
\* key-role requisitions that have both; leaving out a requisition that fails
\* the filter does not change it; RQ1 and RQ2 of the scenario give 36.
C8_Ttp ==
    ReportDone =>
        /\ IsMeanHours(ret.ttp, TtpIdx,
              [i \in TtpIdx |-> HalfHoursBetween(requisitions[i].firstInterviewAt,
                                                 requisitions[i].offerSignedAt)])
        /\ \A i \in (1..Len(requisitions)) \ TtpIdx :
              ttpOf(Without(requisitions, i)) = ret.ttp
        /\ (requisitions \in {demoReqs(now), SubSeq(demoReqs(now), 1, 2)}
              => ret.ttp = NumOf(36))

\* Beside requisitions that count, the list holds one that is not a key role
\* but has both timestamps and a key role that lacks offerSignedAt.
C8_Witness ==
    /\ ReportDone
    /\ TtpIdx # {}
    /\ \E i \in 1..Len(requisitions) :
          /\ ~requisitions[i].keyRole
          /\ requisitions[i].firstInterviewAt.k # "none"
          /\ requisitions[i].offerSignedAt.k # "none"
    /\ \E i \in 1..Len(requisitions) :
          /\ requisitions[i].keyRole
          /\ requisitions[i].firstInterviewAt.k # "none"
          /\ requisitions[i].offerSignedAt.k = "none"
    /\ ret.ttp = NumOf(36)

ScoresInRange ==
    \A i \in 1..Len(enps) :
        enps[i].score.k = "num" /\ enps[i].score.d = 1 /\ enps[i].score.n \in 0..10

-----------------------------------------------------------------------------
(* Properties of the file store (SpecStore) *)

IsNative(v) == v.k \in {"date", "none"}

AllDatesNative ==
    /\ \A i \in 1..Len(tickets) :
          IsNative(tickets[i].createdAt) /\ IsNative(tickets[i].closedAt)
    /\ \A i \in 1..Len(requisitions) :
          /\ IsNative(requisitions[i].approvedAt)
          /\ IsNative(requisitions[i].firstInterviewAt)
          /\ IsNative(requisitions[i].offerSignedAt)
          /\ IsNative(requisitions[i].onboardedAt)
    /\ \A i \in 1..Len(stopClocks) :
          IsNative(stopClocks[i].startAt) /\ IsNative(stopClocks[i].endAt)

\* C4: every date field of the store that loadStore produces is a native
\* instant, and GET /api/kpi always completes with a report.
C4_KpiTotal ==
    /\ AllDatesNative
    /\ (resp.op = "GET /api/kpi" => resp.status = 200 /\ resp.body.k = "report")

-----------------------------------------------------------------------------
(* Properties of the stop-clock ledger (SpecLedger) *)

OpenIdx(clocks, id) ==
    {i \in 1..Len(clocks) : clocks[i].ticketId = id /\ clocks[i].endAt.k = "none"}

\* C6: a resume that is answered closes, at the current instant, the open
\* interval of the ticket that stands last in the ledger, and changes no other
\* interval; without an open interval of the ticket the ledger stays as it is.
C6_Resume ==
    [][(resp'.op = "POST /resume" /\ resp'.status = 200) =>
          LET open == OpenIdx(stopClocks, resp'.id)
          IN  /\ Len(stopClocks') = Len(stopClocks)
              /\ IF open = {} THEN stopClocks' = stopClocks
                 ELSE LET m == CHOOSE i \in open : \A j \in open : j <= i
                      IN  /\ stopClocks'[m] = [stopClocks[m] EXCEPT !.endAt = DateOf(now)]
                          /\ \A i \in (1..Len(stopClocks)) \ {m} :
                                stopClocks'[i] = stopClocks[i]
      ]_vars

\* A resume has just closed the second of two intervals of its ticket, the one
\* added last, although it started before the first, which is still open.
C6_Witness ==
    /\ resp.op = "POST /resume" /\ resp.status = 200
    /\ Len(stopClocks) = 2
    /\ stopClocks[1].ticketId = resp.id /\ stopClocks[2].ticketId = resp.id
    /\ stopClocks[1].endAt.k = "none"
    /\ stopClocks[2].endAt = DateOf(now)
    /\ stopClocks[2].startAt.t < stopClocks[1].startAt.t

\* C7: a pause that is answered appends one interval of the ticket, starting at
\* the current instant and without endAt, and leaves the intervals before it as
\* they are, also when the ticket has open intervals already: the number of its
\* open intervals grows by one.
C7_Pause ==
    [][(resp'.op = "POST /stop" /\ resp'.status = 200) =>
          /\ Len(stopClocks') = Len(stopClocks) + 1
          /\ SubSeq(stopClocks', 1, Len(stopClocks)) = stopClocks
          /\ LET new == stopClocks'[Len(stopClocks')]
             IN  /\ new.ticketId = resp'.id
                 /\ new.startAt = DateOf(now)
                 /\ new.endAt.k = "none"
          /\ Cardinality(OpenIdx(stopClocks', resp'.id))
               = Cardinality(OpenIdx(stopClocks, resp'.id)) + 1
      ]_vars

\* A pause has just been answered on a ticket that was paused already: two of
\* its intervals are open.
C7_Witness ==
    /\ resp.op = "POST /stop" /\ resp.status = 200
    /\ Cardinality(OpenIdx(stopClocks, resp.id)) >= 2

-----------------------------------------------------------------------------
(* C11: scores stored by POST /api/enps *)

\* a stored score that is a number within 0..10 (NaN and null are not)
IsScore(v) == v.k = "num" /\ NumGE(v, NumOf(0)) /\ NumLE(v, NumOf(10))

\* C11: after any sequence of POST /api/enps requests, whatever score they
\* submit (a missing or non-numeric one included), every survey response in
\* the store has a numeric score within 0..10.
C11_ScoresClamped == \A i \in 1..Len(enps) : IsScore(enps[i].score)

-----------------------------------------------------------------------------
(* C12: categories and statuses of the tickets in the store *)

\* type TicketType and type TicketStatus
TicketTypes == {"HIRING", "ONBOARDING", "PERFORMANCE", "FAIRNESS", "OTHER"}
TicketStatuses == {"OPEN", "IN_PROGRESS", "RESOLVED", "CLOSED"}

\* C12: after any sequence of POST /api/tickets requests, whatever type they
\* submit, every ticket in the store has one of the five categories and one of
\* the four statuses.
C12_TicketsWellTyped ==
    \A i \in 1..Len(tickets) :
        tickets[i].type \in TicketTypes /\ tickets[i].status \in TicketStatuses

-----------------------------------------------------------------------------
(* C13: poolMultiple (SpecReport) *)

\* C13: poolMultiple is the constant 3 whenever at least one ticket is a HIRING
\* ticket with status OPEN or IN_PROGRESS and null otherwise, whatever the
\* requisitions, the survey responses, the stop intervals and the number of
\* such tickets are.
C13_PoolMultiple ==
    ReportDone =>
        ret.poolMultiple = (IF OpenHiringIdx # {} THEN NumOf(3) ELSE NullNum)

\* a report of 3 for two hiring tickets, both in progress
C13_Witness ==
    /\ ReportDone
    /\ Cardinality(OpenHiringIdx) = 2
    /\ \A i \in OpenHiringIdx : tickets[i].status = "IN_PROGRESS"
    /\ ret.poolMultiple = NumOf(3)

-----------------------------------------------------------------------------
(* C14: overlapMs (SpecOverlap) *)

OverlapDone == call.fn = "overlapMs" /\ ret # NoRet

\* the half-hour slots [k, k + 1] that lie within the interval from a to b
SlotsWithin(a, b) ==
    {k \in 0..(MaxInstant - 1) : a.t <= k * HalfHour /\ (k + 1) * HalfHour <= b.t}

\* C14: overlapMs is symmetric in its two intervals, never negative, and 0 when
\* the intervals do not intersect or when either of them is reversed (its end
\* before its start); otherwise it is the length of what the two have in common.
C14_Overlap ==
    OverlapDone =>
        LET a1 == call.aStart a2 == call.aEnd b1 == call.bStart b2 == call.bEnd
        IN  /\ ret = NumOf(overlapMs(b1, b2, a1, a2))
            /\ ret.n >= 0
            /\ (a2.t < b1.t \/ b2.t < a1.t) => ret.n = 0
            /\ (a2.t < a1.t \/ b2.t < b1.t) => ret.n = 0
            /\ ret.n = Cardinality(SlotsWithin(a1, a2) \cap SlotsWithin(b1, b2)) * HalfHour

\* two different intervals with a half hour in common
C14_Witness ==
    /\ OverlapDone
    /\ call.aStart.t < call.bStart.t
    /\ call.bStart.t < call.aEnd.t
    /\ call.aEnd.t < call.bEnd.t
    /\ ret.n = HalfHour

-----------------------------------------------------------------------------
(* C16: the stop intervals are subtracted one by one (SpecEff) *)

\* the half-hour slots of the window that the stop interval s covers; an
\* interval without endAt runs until now
SlotsStopped(s) ==
    LET sEnd == IF s.endAt.k = "none" THEN now ELSE s.endAt.t
    IN  {t \in EffTimes :
            /\ call.start.t <= t /\ t + HalfHour <= call.end.t
            /\ s.startAt.t <= t /\ t + HalfHour <= sEnd}

OwnStopIdx == {i \in 1..Len(stopClocks) : stopClocks[i].ticketId = call.ticketId}

\* S of the call in milliseconds: each stop interval of the ticket counted for
\* itself
StoppedMs ==
    SumOver(OwnStopIdx, [i \in OwnStopIdx |-> Cardinality(SlotsStopped(stopClocks[i]))])
        * HalfHour

\* C16: the effective duration is max(0, (end - start) - S) in hours, S being
\* the sum, over the stop intervals of the ticket, of each interval's overlap
\* with the window (an interval without end running until now): the intervals
\* are not merged, so time that two of them cover is subtracted twice.
C16_StopsSubtracted == EffDone => RetEqualsMs(Max(0, WindowMs - StoppedMs))

\* two stop intervals of the ticket cover the same slot of the window and
\* leave another slot free, and the effective duration is 0
C16_Witness ==
    /\ EffDone
    /\ \E i, j \in OwnStopIdx :
          i # j /\ SlotsStopped(stopClocks[i]) \cap SlotsStopped(stopClocks[j]) # {}
    /\ \E t \in EffTimes :
          /\ call.start.t <= t /\ t + HalfHour <= call.end.t
          /\ \A i \in OwnStopIdx : t \notin SlotsStopped(stopClocks[i])
    /\ ret = NumOf(0)

-----------------------------------------------------------------------------
(* C15: GET /api/kpi reads only (SpecKpi) *)

\* C15: a call of computeTop8, and so a GET /api/kpi request, leaves the
\* tickets, the requisitions, the stop intervals and the survey responses, in
\* memory and on file, as they were.
C15_KpiReadsOnly ==
    [][resp'.op = "GET /api/kpi" =>
          UNCHANGED <<tickets, requisitions, stopClocks, enps, files>>]_vars

\* a report sent for a store that holds a posted ticket, a stop interval and a
\* posted score
C15_Witness ==
    /\ resp.op = "GET /api/kpi"
    /\ resp.status = 200
    /\ Len(tickets) > Len(demoTickets(0))
    /\ Len(stopClocks) > 0
    /\ Len(enps) > 0

-----------------------------------------------------------------------------
(* C17: the life of a submitted ticket (SpecService) *)

\* the ids cuid can give to a submitted ticket
PostedIds == {cuid(n) : n \in 0..(MaxPosted + MaxStops)}

HasTicket(id) == \E i \in 1..Len(tickets) : tickets[i].id = id

\* the ticket id is Resolved or Closed, with a closure instant not before its
\* creation
IsResolved(id) ==
    \E i \in 1..Len(tickets) :
        /\ tickets[i].id = id
        /\ tickets[i].status \in {"RESOLVED", "CLOSED"}
        /\ tickets[i].closedAt.k # "none"
        /\ tickets[i].closedAt.t >= tickets[i].createdAt.t

\* the ticket id is Open and has no closure instant
IsFresh(id) ==
    \E i \in 1..Len(tickets) :
        /\ tickets[i].id = id
        /\ tickets[i].status = "OPEN"
        /\ tickets[i].closedAt.k = "none"

\* C17: a ticket created by a submission starts Open with no closure instant;
\* the operations of the service then bring it to Resolved or Closed, with a
\* closure instant not before its creation; and no operation removes a ticket.
C17_Lifecycle ==
    /\ [][\A id \in PostedIds : (~HasTicket(id) /\ HasTicket(id)') => IsFresh(id)']_vars
    /\ [][\A i \in 1..Len(tickets) :
             \E j \in 1..Len(tickets') : tickets'[j].id = tickets[i].id]_vars
    /\ \A id \in PostedIds : [](HasTicket(id) => <>IsResolved(id))

\* What the service does instead: a submitted ticket is Open, without a closure
\* instant, in every state.
C17_StaysOpen == \A id \in PostedIds : HasTicket(id) => IsFresh(id)

-----------------------------------------------------------------------------
(* C18: the ledger under a non-decreasing clock (SpecLedgerMono) *)

\* C18: while the clock never goes back, every interval that has an endAt has
\* endAt >= startAt; an interval that has an endAt keeps it, and is never open
\* again; and every interval stays in the ledger, with its ticket and startAt.
C18_Ledger ==
    [][/\ \A i \in 1..Len(stopClocks) :
             \E j \in 1..Len(stopClocks') :
                 /\ stopClocks'[j].id = stopClocks[i].id
                 /\ stopClocks'[j].ticketId = stopClocks[i].ticketId
                 /\ stopClocks'[j].startAt = stopClocks[i].startAt
                 /\ stopClocks[i].endAt.k # "none" =>
                        stopClocks'[j].endAt = stopClocks[i].endAt
       /\ \A j \in 1..Len(stopClocks') :
             stopClocks'[j].endAt.k # "none" =>
                 stopClocks'[j].endAt.t >= stopClocks'[j].startAt.t
      ]_vars

\* a resume has just been answered for a ticket one of whose intervals was
\* closed at an earlier instant, after it had started
C18_Witness ==
    /\ resp.op = "POST /resume" /\ resp.status = 200
    /\ \E i \in 1..Len(stopClocks) :
          /\ stopClocks[i].ticketId = resp.id
          /\ stopClocks[i].endAt.k = "date"
          /\ stopClocks[i].startAt.t <= stopClocks[i].endAt.t
          /\ stopClocks[i].endAt.t < now

-----------------------------------------------------------------------------
(* C19: the POST endpoints ask for a session (SpecSession) *)

PostOps == {"POST /api/tickets", "POST /stop", "POST /resume", "POST /api/enps"}

\* what the four collections hold, as JSON.stringify writes it
Content ==
    <<MapSeq(tickets, jsonTicket), MapSeq(requisitions, jsonRequisition),
      MapSeq(stopClocks, jsonStopClock), MapSeq(enps, jsonENPS)>>

\* the cookie c names a stored session that has not expired
ValidCookie(c) ==
    \E i \in 1..Len(sessions) : sessions[i].sid = c /\ now <= sessions[i].expiresAt

-----------------------------------------------------------------------------
(* C20: how long a session lasts (SpecSession) *)

\* the step's request was treated as logged in: a POST endpoint answered 200,
\* or the page of GET / showed the user
TreatedAsLoggedIn(r) ==
    \/ r.op \in PostOps /\ r.status = 200
    \/ r.op = "GET /" /\ r.body.k = "logged-in"

\* the sid c is in the store and at most 7 days have passed since its creation
WithinLife(c) ==
    \E i \in 1..Len(sessions) :
        sessions[i].sid = c /\ now <= sessions[i].createdAt + 7 * 24 * HOURS

Sids(sess) == {sess[i].sid : i \in 1..Len(sess)}

\* C20: a request is treated as logged in exactly when its sid is in the store
\* and at most 7 days have passed since the session's creation; GET /logout
\* with a sid takes that session, and no other, out of the store; and a sid
\* that has left the store never comes back, so no later request with it is
\* treated as logged in.
C20_SessionLife ==
    [][/\ resp'.op \in PostOps \cup {"GET /"} =>
              (TreatedAsLoggedIn(resp') <=> WithinLife(resp'.cookie))
       /\ resp'.op = "GET /logout" =>
              sessions' = SelectSeq(sessions, LAMBDA s : s.sid # resp'.id)
       /\ \A n \in 1..nextSid :
              sidOf(n) \notin Sids(sessions) => sidOf(n) \notin Sids(sessions')
      ]_vars

\* the page of GET / has just shown a request with the logged-out sid s1 as
\* anonymous, while the other client's session is in the store as it was
C20_Witness ==
    /\ resp.op = "GET /" /\ resp.cookie = sidOf(1) /\ resp.body.k = "anonymous"
    /\ nextSid >= 1
    /\ sidOf(1) \notin Sids(sessions)
    /\ sessions = <<[sid |-> sidOf(0), createdAt |-> 0, expiresAt |-> SessionTTL]>>

-----------------------------------------------------------------------------
(* C21: the files after overlapping saves (SpecAsync) *)

\* every request received has run to its end
AllFinished ==
    /\ Len(requests) > 0
    /\ \A i \in 1..Len(requests) : requests[i].pc \in {"done", "failed"}

\* C21: once every request in flight has finished, requests whose handlers and
\* saves of one collection overlapped included, the file of each saved
\* collection holds exactly what the collection holds in memory, and no save
\* has failed because of another save of the same file.
C21_FilesMatchStore ==
    AllFinished =>
        /\ files.stopClocks = MapSeq(stopClocks, jsonStopClock)
        /\ files.enps = MapSeq(enps, jsonENPS)
        /\ \A i \in 1..Len(requests) : requests[i].err # "ENOENT"

\* Part of it fails with every request answered 200: an update is lost.
C21_NoLostUpdate ==
    (AllFinished /\ \A i \in 1..Len(requests) : requests[i].status = 200) =>
        /\ files.stopClocks = MapSeq(stopClocks, jsonStopClock)
        /\ files.enps = MapSeq(enps, jsonENPS)

-----------------------------------------------------------------------------
(* C22: one response for every request (SpecAsync) *)

\* the handler of request i has a step left to run
Running(i) == up /\ requests[i].pc \in {"body", "write", "rename"}

\* C22: every request that route handles receives exactly one response,
\* whatever its method, path, session and body are (an empty or malformed body
\* and a failing save included): no request is answered twice, and a request
\* not answered yet has a handler that is still running, which the event loop
\* takes to its answer.
C22_OneResponse ==
    \A i \in 1..Len(requests) :
        /\ requests[i].sent <= 1
        /\ requests[i].sent = 0 => Running(i)

=============================================================================
